---------------------------- MODULE Spec2Model ----------------------------
(***************************************************************************)
(* A model of scripts/benchmark_rag.py: the RAG token-savings benchmark.   *)
(*                                                                         *)
(* Text is modelled as a sequence of one-character strings, so that the    *)
(* script's string operations (split, strip, startswith, find, lower, the  *)
(* substring test `in`) are computed as Python computes them.              *)
(***************************************************************************)
EXTENDS Integers, Sequences, FiniteSets, TLC

VARIABLES
    pc,             \* position of main(): start, rag, naive, compare, save, done;
                    \* call, returned for a function run on its own
    argv,           \* sys.argv
    query,          \* the query string
    search,         \* outcome of the subprocess.run call of run_indexer_search
    chunks,         \* list returned by run_indexer_search
    rag_tokens,     \* benchmark_rag_approach's token_count
    rag_context,    \* benchmark_rag_approach's context string
    fs,             \* the filesystem state get_file_contents met
    relevant_files, \* candidate path list of the naive approach
    file_contents,  \* list returned by get_file_contents
    naive_tokens,   \* benchmark_naive_approach's token_count
    naive_context,  \* benchmark_naive_approach's context string
    report,         \* what the comparison block of main computed and printed
    save_env,       \* value of the SAVE_CONTEXTS environment variable
    save_fault,     \* whether tempfile raised while the contexts were saved
    tmp_files,      \* temporary files written by main, in creation order
    out,            \* diagnostics printed to standard output
    exit_code       \* process exit status (-1 while running)

vars == << pc, argv, query, search, chunks, rag_tokens, rag_context, fs,
           relevant_files, file_contents, naive_tokens, naive_context,
           report, save_env, save_fault, tmp_files, out, exit_code >>

----------------------------------------------------------------------------
(* Bounds of the model.                                                    *)

\* Largest number of ranked entries in a search output.
MaxEntries == 3

\* Largest number of pieces a generated query is concatenated from.
MaxWords == 3

\* Longest candidate path list handed to get_file_contents on its own.
MaxPaths == 3

----------------------------------------------------------------------------
(* Python string operations on sequences of characters.                    *)

\* str.isspace() for the characters of the model's alphabet.
IsSpace(c) == c \in {" ", "\n", "\t", "\r"}

\* s[i:] for a 0-based index i (Python slice).
SliceFrom(s, i) == IF i >= Len(s) THEN << >> ELSE SubSeq(s, i + 1, Len(s))

\* s.startswith(p)
StartsWith(s, p) == /\ Len(p) <= Len(s)
                    /\ \A i \in 1..Len(p) : s[i] = p[i]

\* s.find(p): lowest 0-based index where p occurs, or -1.
Find(s, p) ==
    LET hits == { i \in 0..(Len(s) - Len(p)) :
                     \A j \in 1..Len(p) : s[i + j] = p[j] }
    IN  IF hits = {} THEN -1
        ELSE CHOOSE i \in hits : \A k \in hits : i <= k

\* p in s
Contains(s, p) ==
    \E i \in 0..(Len(s) - Len(p)) : \A j \in 1..Len(p) : s[i + j] = p[j]

RECURSIVE LStrip(_)
LStrip(s) == IF s # << >> /\ IsSpace(Head(s)) THEN LStrip(Tail(s)) ELSE s

RECURSIVE RStrip(_)
RStrip(s) == IF s # << >> /\ IsSpace(s[Len(s)])
             THEN RStrip(SubSeq(s, 1, Len(s) - 1)) ELSE s

\* s.strip()
Strip(s) == RStrip(LStrip(s))

\* s.split(sep) for a one-character separator: always at least one part.
RECURSIVE SplitOn(_, _)
SplitOn(s, sep) ==
    LET cut == { i \in 1..Len(s) : s[i] = sep }
    IN  IF cut = {} THEN << s >>
        ELSE LET i == CHOOSE k \in cut : \A m \in cut : k <= m
             IN  << SubSeq(s, 1, i - 1) >> \o SplitOn(SliceFrom(s, i), sep)

\* len(s.split()): the number of maximal runs of non-whitespace characters.
count_tokens(text) ==
    Cardinality({ i \in 1..Len(text) :
                     /\ ~IsSpace(text[i])
                     /\ (i = 1 \/ IsSpace(text[i - 1])) })

LowerLetters == << "a", "b", "c", "d", "e", "f", "g", "h", "i", "j", "k", "l", "m",
                   "n", "o", "p", "q", "r", "s", "t", "u", "v", "w", "x", "y", "z" >>
UpperLetters == << "A", "B", "C", "D", "E", "F", "G", "H", "I", "J", "K", "L", "M",
                   "N", "O", "P", "Q", "R", "S", "T", "U", "V", "W", "X", "Y", "Z" >>

\* str.lower() on one character of the model's alphabet.
LowerOf == [ c \in { UpperLetters[i] : i \in 1..26 } |->
               LowerLetters[CHOOSE i \in 1..26 : UpperLetters[i] = c] ]
LowerChar(c) == IF c \in DOMAIN LowerOf THEN LowerOf[c] ELSE c

\* s.lower()
Lower(s) == [ i \in 1..Len(s) |-> LowerChar(s[i]) ]

\* str(i) for 0 <= i <= 99.
Digit(i) == CASE i = 0 -> "0" [] i = 1 -> "1" [] i = 2 -> "2" [] i = 3 -> "3"
              [] i = 4 -> "4" [] i = 5 -> "5" [] i = 6 -> "6" [] i = 7 -> "7"
              [] i = 8 -> "8" [] i = 9 -> "9"
Str(i) == IF i < 10 THEN << Digit(i) >>
          ELSE << Digit(i \div 10), Digit(i % 10) >>

\* "".join(parts)
RECURSIVE Concat(_)
Concat(parts) == IF parts = << >> THEN << >>
                 ELSE Head(parts) \o Concat(Tail(parts))

----------------------------------------------------------------------------
(* run_indexer_search: the parser of the search output.                    *)

ScoreMarker == <<"S", "c", "o", "r", "e", ":">>
InMarker    == <<"i", "n", " ">>
LinesMarker == <<"L", "i", "n", "e", "s">>
Unknown     == <<"u", "n", "k", "n", "o", "w", "n">>
ColonSpace  == <<":", " ">>

\* Line 53: the stripped line starts with "1." .. "5.".
IsRankLine(line) ==
    \E d \in {"1", "2", "3", "4", "5"} : StartsWith(Strip(line), << d, "." >>)

\* Lines 56-62: the chunk a header line opens; << >> stands for "no change".
HeaderChunk(line) ==
    LET parts == SplitOn(line, "'")
    IN  IF Len(parts) >= 2
        THEN << [ name |-> parts[2],
                  file |-> IF Contains(line, InMarker)
                           THEN parts[Len(parts)] ELSE Unknown,
                  code |-> << >> ] >>
        ELSE << >>

\* Lines 52-69: one iteration of the loop over the output's lines.  The state
\* of the loop is st.chunks and st.current (<< >> for None, else << chunk >>).
ParseLine(st, line) ==
    IF IsRankLine(line)
    THEN IF Contains(line, ScoreMarker) /\ HeaderChunk(line) # << >>
         THEN [ st EXCEPT !.current = HeaderChunk(line) ]
         ELSE st
    ELSE IF StartsWith(Strip(line), LinesMarker) /\ st.current # << >>
    THEN LET code_start == Find(line, ColonSpace) + 2
         IN  IF code_start > 1
             THEN [ chunks  |-> Append(st.chunks,
                                  [ st.current[1] EXCEPT
                                      !.code = SliceFrom(line, code_start) ]),
                    current |-> << >> ]
             ELSE st
    ELSE st

RECURSIVE ParseLines(_, _)
ParseLines(st, lines) ==
    IF lines = << >> THEN st
    ELSE ParseLines(ParseLine(st, Head(lines)), Tail(lines))

\* Lines 48-71: the chunks parsed from the process's standard output.
ParseOutput(stdout) ==
    ParseLines([ chunks |-> << >>, current |-> << >> ],
               SplitOn(stdout, "\n")).chunks


----------------------------------------------------------------------------
(* The search tool's output: ranked blocks of entries, rendered as text.   *)

\* The entry of rank r: its name, source file and code.
EntryName(r) == << "f", Digit(r) >>
EntryFile(r) == << "s", "r", "c", "/", "f", Digit(r), ".", "r", "s" >>
EntryCode(r) == << "k", ":", " ", Digit(r) >>

FunctionLabel == <<".", " ", "F", "u", "n", "c", "t", "i", "o", "n", " ">>
ScoreText     == <<" ", "(", "S", "c", "o", "r", "e", ":", " ", "0", ".", "9", ")">>
InText        == <<" ", "i", "n", " ">>
BodyPrefix    == <<" ", " ", " ", "L", "i", "n", "e", "s", " ", "1", "-", "5">>
Quote(s)      == << "'" >> \o s \o << "'" >>

\* The shapes an entry of the output can have.  okA and okB are well formed:
\* a numbered header with a quoted name, a Score: marker and a source-file
\* annotation, then a "Lines ...: <code>" line.  The others are truncated or
\* malformed in one place.
WellFormedKinds == { "okA", "okB" }
MalformedKinds  == { "hdr_noscore", "hdr_noquote", "hdr_nofile",
                     "hdr_missing", "body_missing", "body_nocolon" }
EntryKinds      == WellFormedKinds \cup MalformedKinds

\* The header line of an entry (<< >> when the header is missing).
HeaderLine(kind, r) ==
    CASE kind = "okB" ->
           << << " ", " ", Digit(r), ".", " " >> \o Quote(EntryName(r))
              \o InText \o EntryFile(r) \o ScoreText >>
      [] kind = "hdr_noscore" ->
           << << Digit(r) >> \o FunctionLabel \o Quote(EntryName(r))
              \o InText \o EntryFile(r) >>
      [] kind = "hdr_noquote" ->
           << << Digit(r) >> \o FunctionLabel \o EntryName(r)
              \o ScoreText \o InText \o EntryFile(r) >>
      [] kind = "hdr_nofile" ->
           << << Digit(r) >> \o FunctionLabel \o Quote(EntryName(r))
              \o ScoreText >>
      [] kind = "hdr_missing" -> << >>
      [] OTHER ->
           << << Digit(r) >> \o FunctionLabel \o Quote(EntryName(r))
              \o ScoreText \o InText \o EntryFile(r) >>

\* The body line of an entry (<< >> when the body is missing).
BodyLine(kind, r) ==
    CASE kind = "body_missing" -> << >>
      [] kind = "body_nocolon" -> << BodyPrefix >>
      [] OTHER -> << BodyPrefix \o ColonSpace \o EntryCode(r) >>

\* A block: the kinds of its entries in emission order, and whether the tool
\* emitted them in rank order or reversed.
RankAt(block, i) ==
    IF block.reversed THEN Len(block.kinds) + 1 - i ELSE i

RECURSIVE BlockLinesFrom(_, _)
BlockLinesFrom(block, i) ==
    IF i > Len(block.kinds) THEN << >>
    ELSE HeaderLine(block.kinds[i], RankAt(block, i))
         \o BodyLine(block.kinds[i], RankAt(block, i))
         \o BlockLinesFrom(block, i + 1)

\* The text of a block: each line ended by a newline.
RenderBlock(block) ==
    LET lines == BlockLinesFrom(block, 1)
    IN  Concat([ i \in 1..Len(lines) |-> lines[i] \o << "\n" >> ])

Blocks ==
    { [ kinds |-> ks, reversed |-> rv ] :
        ks \in UNION { [ 1..n -> EntryKinds ] : n \in 0..MaxEntries },
        rv \in BOOLEAN }

ErrorText == <<"e", "r", "r", "o", "r">>

\* Outcomes of subprocess.run: an exception while launching or reading the
\* process, a non-zero exit status, or exit status 0 with the output.
Outcome(raised, rc, block) ==
    [ raised |-> raised, returncode |-> rc, block |-> block,
      stdout |-> RenderBlock(block), stderr |-> IF rc = 0 THEN << >> ELSE ErrorText ]

EmptyBlock == [ kinds |-> << >>, reversed |-> FALSE ]

----------------------------------------------------------------------------
(* run_indexer_search                                                      *)

\* Lines 42-44 dropped: the exit status is not looked at.
RunIndexerSearch_NoExitCheck(o) ==
    IF o.raised
    THEN [ chunks |-> << >>, out |-> << << "Error running search" >> >> ]
    ELSE [ chunks |-> ParseOutput(o.stdout), out |-> << >> ]

\* Lines 30-74: the list returned and the diagnostics printed.
RunIndexerSearch(o) ==
    IF o.raised
    THEN [ chunks |-> << >>, out |-> << << "Error running search" >> >> ]
    ELSE IF o.returncode # 0
    THEN [ chunks |-> << >>, out |-> << << "Error running indexer" >> >> ]
    ELSE [ chunks |-> ParseOutput(o.stdout), out |-> << >> ]

----------------------------------------------------------------------------
(* benchmark_rag_approach                                                  *)

QueryLabel  == <<"Q", "u", "e", "r", "y", ":", " ">>
RagHeading  == <<"\n", "\n", "R", "e", "l", "e", "v", "a", "n", "t", " ", "c", "o", "d", "e", " ",
                 "c", "h", "u", "n", "k", "s", ":", "\n", "\n">>
ChunkLabel  == <<"-", "-", "-", " ", "C", "h", "u", "n", "k", " ">>
FromText    == <<" ", "f", "r", "o", "m", " ">>
RuleEnd     == <<" ", "-", "-", "-", "\n">>
BlankLine   == <<"\n", "\n">>

\* Lines 117-119: the text added for chunks i..n (enumerate from 1).
RECURSIVE RagChunkText(_, _)
RagChunkText(cs, i) ==
    IF i > Len(cs) THEN << >>
    ELSE ChunkLabel \o Str(i) \o ColonSpace \o cs[i].name \o FromText
         \o cs[i].file \o RuleEnd \o cs[i].code \o BlankLine
         \o RagChunkText(cs, i + 1)

\* Lines 102-126: (token_count, rag_context), with the chunks and the
\* diagnostics printed on the way.
BenchmarkRagApproach(q, o) ==
    LET found == RunIndexerSearch(o)
        ctx   == QueryLabel \o q \o RagHeading \o RagChunkText(found.chunks, 1)
    IN  IF found.chunks = << >>
        THEN [ chunks |-> << >>, tokens |-> 0, context |-> << >>,
               out |-> found.out \o << << "No chunks found" >> >> ]
        ELSE [ chunks |-> found.chunks, tokens |-> count_tokens(ctx),
               context |-> ctx, out |-> found.out ]

----------------------------------------------------------------------------
(* benchmark_naive_approach: the candidate files                           *)

src_main_rs               == <<"s", "r", "c", "/", "m", "a", "i", "n", ".", "r", "s">>
src_bin_indexer_rs        == <<"s", "r", "c", "/", "b", "i", "n", "/", "i", "n", "d", "e", "x", "e", "r", ".", "r", "s">>
src_voice_mod_rs          == <<"s", "r", "c", "/", "v", "o", "i", "c", "e", "/", "m", "o", "d", ".", "r", "s">>
src_voice_capture_rs      == <<"s", "r", "c", "/", "v", "o", "i", "c", "e", "/", "c", "a", "p", "t", "u", "r", "e", ".", "r", "s">>
src_llm_gemini_client_rs  == <<"s", "r", "c", "/", "l", "l", "m", "/", "g", "e", "m", "i", "n", "i", "_", "c", "l", "i", "e", "n", "t", ".", "r", "s">>
src_index_chunker_rs      == <<"s", "r", "c", "/", "i", "n", "d", "e", "x", "/", "c", "h", "u", "n", "k", "e", "r", ".", "r", "s">>
src_index_embedder_rs     == <<"s", "r", "c", "/", "i", "n", "d", "e", "x", "/", "e", "m", "b", "e", "d", "d", "e", "r", ".", "r", "s">>
src_index_vector_store_rs == <<"s", "r", "c", "/", "i", "n", "d", "e", "x", "/", "v", "e", "c", "t", "o", "r", "_", "s", "t", "o", "r", "e", ".", "r", "s">>
Cargo_toml                == <<"C", "a", "r", "g", "o", ".", "t", "o", "m", "l">>
README_md                 == <<"R", "E", "A", "D", "M", "E", ".", "m", "d">>

\* Lines 139-146: the keyword groups and their file lists, in the order tested.
KeywordGroups ==
    << [ keywords |-> << <<"c", "l", "i">>,
                         <<"c", "o", "m", "m", "a", "n", "d">>,
                         <<"a", "r", "g", "u", "m", "e", "n", "t">>,
                         <<"c", "l", "a", "p">> >>,
         files    |-> << src_main_rs, src_bin_indexer_rs >> ],
       [ keywords |-> << <<"v", "o", "i", "c", "e">>,
                         <<"a", "u", "d", "i", "o">>,
                         <<"r", "e", "c", "o", "r", "d">> >>,
         files    |-> << src_voice_mod_rs, src_voice_capture_rs >> ],
       [ keywords |-> << <<"l", "l", "m">>,
                         <<"g", "e", "m", "i", "n", "i">>,
                         <<"a", "p", "i">> >>,
         files    |-> << src_llm_gemini_client_rs >> ],
       [ keywords |-> << <<"i", "n", "d", "e", "x">>,
                         <<"s", "e", "a", "r", "c", "h">>,
                         <<"c", "h", "u", "n", "k">>,
                         <<"e", "m", "b", "e", "d">> >>,
         files    |-> << src_index_chunker_rs, src_index_embedder_rs,
                         src_index_vector_store_rs >> ] >>

\* Line 150: the default files.
DefaultFiles == << src_main_rs, Cargo_toml, README_md >>

\* The query used as it is: no case folding.
QueryLower_NoFold(q) == q

\* Line 138: query_lower.
QueryLower(q) == Lower(q)

\* Lines 139, 141, 143, 145: any(word in query_lower for word in [...]).
AnyKeywordIn(query_lower, keywords) ==
    \E k \in 1..Len(keywords) : Contains(query_lower, keywords[k])

\* Lines 139-146: the extend calls, group after group.
RECURSIVE ExtendFrom(_, _)
ExtendFrom(query_lower, g) ==
    IF g > Len(KeywordGroups) THEN << >>
    ELSE (IF AnyKeywordIn(query_lower, KeywordGroups[g].keywords)
          THEN KeywordGroups[g].files ELSE << >>)
         \o ExtendFrom(query_lower, g + 1)

\* Line 153: list(dict.fromkeys(xs)): first occurrences, in order.
RECURSIVE DictFromKeys(_)
DictFromKeys(xs) ==
    IF xs = << >> THEN << >>
    ELSE LET init == DictFromKeys(SubSeq(xs, 1, Len(xs) - 1))
             last == xs[Len(xs)]
         IN  IF \E i \in 1..Len(init) : init[i] = last
             THEN init ELSE Append(init, last)

\* Lines 136-153: relevant_files.
RelevantFiles(q) ==
    LET extended == ExtendFrom(QueryLower(q), 1)
    IN  DictFromKeys(IF extended = << >> THEN DefaultFiles ELSE extended)

----------------------------------------------------------------------------
(* get_file_contents                                                       *)

FileText == <<"f", "n", " ", "m", "a", "i", "n", "(", ")", " ", "{", "}", "\n">>

\* What a path can be when it is read: missing (exists() is false),
\* unreadable (exists, but open, read or decode raises), or readable with
\* some text.
FileStates ==
    { [ kind |-> "missing",    content |-> << >> ],
      [ kind |-> "unreadable", content |-> << >> ],
      [ kind |-> "readable",   content |-> << >> ],
      [ kind |-> "readable",   content |-> FileText ] }

\* The try block moved around the loop: the first failure ends the reading.
RECURSIVE GetFileContents_AbortOnError(_, _)
GetFileContents_AbortOnError(file_paths, fsys) ==
    IF file_paths = << >> THEN [ contents |-> << >>, out |-> << >> ]
    ELSE LET p    == Head(file_paths)
             rest == GetFileContents_AbortOnError(Tail(file_paths), fsys)
         IN  CASE fsys[p].kind = "readable" ->
                    [ contents |-> << [ file |-> p, content |-> fsys[p].content,
                                        size |-> Len(fsys[p].content) ] >>
                                   \o rest.contents,
                      out |-> rest.out ]
               [] fsys[p].kind = "missing" ->
                    [ contents |-> rest.contents,
                      out |-> << << "Warning: File not found", p >> >> \o rest.out ]
               [] OTHER ->
                    [ contents |-> << >>,
                      out |-> << << "Error reading", p >> >> ]

\* Lines 76-100: the list returned and the diagnostics printed.
RECURSIVE GetFileContents(_, _)
GetFileContents(file_paths, fsys) ==
    IF file_paths = << >> THEN [ contents |-> << >>, out |-> << >> ]
    ELSE LET p    == Head(file_paths)
             rest == GetFileContents(Tail(file_paths), fsys)
         IN  CASE fsys[p].kind = "readable" ->
                    [ contents |-> << [ file |-> p, content |-> fsys[p].content,
                                        size |-> Len(fsys[p].content) ] >>
                                   \o rest.contents,
                      out |-> rest.out ]
               [] fsys[p].kind = "missing" ->
                    [ contents |-> rest.contents,
                      out |-> << << "Warning: File not found", p >> >> \o rest.out ]
               [] OTHER ->
                    [ contents |-> rest.contents,
                      out |-> << << "Error reading", p >> >> \o rest.out ]

----------------------------------------------------------------------------
(* benchmark_naive_approach: the context                                   *)

NaiveHeading == <<"\n", "\n", "E", "n", "t", "i", "r", "e", " ", "f", "i", "l", "e", " ",
                  "c", "o", "n", "t", "e", "n", "t", "s", ":", "\n", "\n">>
FileLabel    == <<"-", "-", "-", " ", "F", "i", "l", "e", ":", " ">>

\* Lines 162-164: the text added for file_contents.
RECURSIVE NaiveFileText(_)
NaiveFileText(infos) ==
    IF infos = << >> THEN << >>
    ELSE FileLabel \o Head(infos).file \o RuleEnd \o Head(infos).content
         \o BlankLine \o NaiveFileText(Tail(infos))

\* An early return of (0, "") when no file could be read, as in the RAG
\* approach's handling of an empty chunk list.
BenchmarkNaiveApproach_EmptyOnNoFiles(q, fsys) ==
    LET files == RelevantFiles(q)
        read  == GetFileContents(files, fsys)
        ctx   == QueryLabel \o q \o NaiveHeading \o NaiveFileText(read.contents)
    IN  [ relevant_files |-> files, file_contents |-> read.contents,
          tokens  |-> IF read.contents = << >> THEN 0 ELSE count_tokens(ctx),
          context |-> IF read.contents = << >> THEN << >> ELSE ctx,
          out |-> read.out ]

\* Lines 128-173: (token_count, naive_context), with the candidate list, the
\* files read and the diagnostics printed on the way.
BenchmarkNaiveApproach(q, fsys) ==
    LET files == RelevantFiles(q)
        read  == GetFileContents(files, fsys)
        ctx   == QueryLabel \o q \o NaiveHeading \o NaiveFileText(read.contents)
    IN  [ relevant_files |-> files, file_contents |-> read.contents,
          tokens |-> count_tokens(ctx), context |-> ctx, out |-> read.out ]

----------------------------------------------------------------------------
(* main: the comparison                                                    *)

\* The test on the retrieval cost dropped from the guard.
ComparisonGuard_NaiveOnly(rag, naive) == naive > 0

\* The guard with `or` in place of `and`.
ComparisonGuard_Or(rag, naive) == rag > 0 \/ naive > 0

\* Line 202: both costs are strictly positive.
ComparisonGuard(rag, naive) == rag > 0 /\ naive > 0

NotCompared ==
    [ kind |-> "none", savings |-> << >>, percent |-> << >>,
      efficiency |-> << >>, framing |-> "none" ]

\* Lines 202-217: what the comparison computes and prints.  A value that is
\* not computed is << >>; a ratio is kept as numerator and denominator.  kind
\* is "complete", "incomplete", or "crash" when a division by zero is raised.
CompareResults(rag, naive) ==
    IF ComparisonGuard(rag, naive)
    THEN LET savings == naive - rag
         IN  IF naive = 0
             THEN [ NotCompared EXCEPT !.kind = "crash", !.savings = << savings >> ]
             ELSE [ kind    |-> "complete",
                    savings |-> << savings >>,
                    percent |-> << [ num |-> savings * 100, den |-> naive ] >>,
                    efficiency |->
                        IF savings > 0
                        THEN << IF rag > 0
                                THEN [ inf |-> FALSE, num |-> naive, den |-> rag ]
                                ELSE [ inf |-> TRUE, num |-> 0, den |-> 0 ] >>
                        ELSE << >>,
                    framing |-> IF savings > 0 THEN "win" ELSE "regression" ]
    ELSE [ NotCompared EXCEPT !.kind = "incomplete" ]

----------------------------------------------------------------------------
(* main: the optional saving of the contexts                               *)

TrueText == <<"t", "r", "u", "e">>
OneText  == <<"1">>
YesText  == <<"y", "e", "s">>

\* os.getenv(name, default) on an environment entry that is set or not.
GetEnv(env, default) == IF env.set THEN env.value ELSE default

\* The value compared as it is: no case folding.
SaveContextsEnabled_NoFold(env) ==
    GetEnv(env, << >>) \in { TrueText, OneText, YesText }

\* Line 225: save_contexts.
SaveContextsEnabled(env) ==
    Lower(GetEnv(env, << >>)) \in { TrueText, OneText, YesText }

RagSuffix   == <<"_", "r", "a", "g", "_", "c", "o", "n", "t", "e", "x", "t", ".", "t", "x", "t">>
NaiveSuffix == <<"_", "n", "a", "i", "v", "e", "_", "c", "o", "n", "t", "e", "x", "t", ".", "t", "x", "t">>

\* The random parts tempfile can give a name.
TmpNames == { "tmpk3x9", "tmpq7w2" }

\* Ways the saving can go: both files written; creating or writing the
\* first one raises; creating or writing the second one raises.
SaveFaults == { "none", "first", "second" }

\* Values of SAVE_CONTEXTS in the environment.
EnvValues ==
    { [ set |-> FALSE, value |-> << >> ],
      [ set |-> TRUE,  value |-> TrueText ],
      [ set |-> TRUE,  value |-> <<"T", "r", "U", "e">> ],
      [ set |-> TRUE,  value |-> OneText ],
      [ set |-> TRUE,  value |-> <<"Y", "E", "S">> ],
      [ set |-> TRUE,  value |-> <<"0">> ],
      [ set |-> TRUE,  value |-> <<" ", "y", "e", "s">> ] }

----------------------------------------------------------------------------
(* Inputs of a run                                                         *)

ScriptName == <<"b", "e", "n", "c", "h", "m", "a", "r", "k", "_", "r", "a", "g", ".", "p", "y">>

Queries ==
    { << >>,
      <<"h", "e", "l", "l", "o">>,
      <<"a", "d", "d", " ", "a", " ", "c", "o", "m", "m", "a", "n", "d", " ",
        "t", "o", " ", "t", "h", "e", " ", "C", "L", "I">>,
      <<"g", "e", "m", "i", "n", "i", " ", "a", "p", "i">> }

\* Command lines: no argument, one query, two arguments.
Argvs ==
    { << ScriptName >> }
    \cup { << ScriptName, q >> : q \in Queries }
    \cup { << ScriptName, <<"h", "e", "l", "l", "o">>, <<"-", "v">> >> }

\* Search outputs met by whole runs: rank-ordered blocks of well-formed
\* entries, and one truncated after its first header.
MainBlocks ==
    { [ kinds |-> [ i \in 1..n |-> "okA" ], reversed |-> FALSE ] : n \in 0..MaxEntries }
    \cup { [ kinds |-> << "body_missing" >>, reversed |-> FALSE ] }

MainOutcomes ==
    { Outcome(TRUE, 0, EmptyBlock) }
    \cup { Outcome(FALSE, rc, b) : rc \in {0, 101}, b \in MainBlocks }

\* Search outcomes met by run_indexer_search on its own: every block.
SearchOutcomes ==
    { Outcome(TRUE, 0, EmptyBlock) }
    \cup { Outcome(FALSE, 101, b) : b \in MainBlocks }
    \cup { Outcome(FALSE, 0, b) : b \in Blocks }

\* Queries met by the naive approach on its own: up to MaxWords pieces,
\* concatenated without a separator.
QueryPieces ==
    { <<"C", "L", "I">>, <<"I", "n", "d", "e", "x">>, <<"a", "p", "i">>,
      <<"c", "l">>, <<"i">>, <<" ", "h", "e", "l", "l", "o", " ">> }

GeneratedQueries ==
    { Concat(ws) : ws \in UNION { [ 1..n -> QueryPieces ] : n \in 0..MaxWords } }

\* Candidate path lists met by get_file_contents on its own.
PathUniverse == { src_main_rs, Cargo_toml, README_md }
PathLists    == UNION { [ 1..n -> PathUniverse ] : n \in 0..MaxPaths }

PathSet(paths) == { paths[i] : i \in 1..Len(paths) }

NoOutcome == [ raised |-> FALSE, returncode |-> 0, block |-> EmptyBlock,
               stdout |-> << >>, stderr |-> << >> ]
NoEnv     == [ set |-> FALSE, value |-> << >> ]

\* The results and effects of a run, before anything ran.
Blank ==
    /\ chunks = << >>
    /\ rag_tokens = 0
    /\ rag_context = << >>
    /\ file_contents = << >>
    /\ naive_tokens = 0
    /\ naive_context = << >>
    /\ report = NotCompared
    /\ save_env = NoEnv
    /\ save_fault = "none"
    /\ tmp_files = << >>
    /\ out = << >>
    /\ exit_code = -1

----------------------------------------------------------------------------
(* main                                                                    *)

Init ==
    /\ pc = "start"
    /\ argv \in Argvs
    /\ query = << >>
    /\ search = NoOutcome
    /\ fs = << >>
    /\ relevant_files = << >>
    /\ Blank

\* Lines 176-187: the argument check.
CheckArguments ==
    /\ pc = "start"
    /\ IF Len(argv) # 2
       THEN /\ out' = Append(out, << "Usage" >>)
            /\ exit_code' = 1
            /\ pc' = "done"
            /\ UNCHANGED query
       ELSE /\ query' = argv[2]
            /\ pc' = "rag"
            /\ UNCHANGED << out, exit_code >>
    /\ UNCHANGED << argv, search, chunks, rag_tokens, rag_context, fs,
                    relevant_files, file_contents, naive_tokens, naive_context,
                    report, save_env, save_fault, tmp_files >>

\* Line 190: rag_tokens, rag_context = benchmark_rag_approach(query).
RagStep ==
    /\ pc = "rag"
    /\ \E o \in MainOutcomes :
          LET r == BenchmarkRagApproach(query, o)
          IN  /\ search' = o
              /\ chunks' = r.chunks
              /\ rag_tokens' = r.tokens
              /\ rag_context' = r.context
              /\ out' = out \o r.out
    /\ pc' = "naive"
    /\ UNCHANGED << argv, query, fs, relevant_files, file_contents,
                    naive_tokens, naive_context, report, save_env, save_fault,
                    tmp_files, exit_code >>

\* Line 194: naive_tokens, naive_context = benchmark_naive_approach(query).
NaiveStep ==
    /\ pc = "naive"
    /\ \E fsys \in [ PathSet(RelevantFiles(query)) -> FileStates ] :
          LET r == BenchmarkNaiveApproach(query, fsys)
          IN  /\ fs' = fsys
              /\ relevant_files' = r.relevant_files
              /\ file_contents' = r.file_contents
              /\ naive_tokens' = r.tokens
              /\ naive_context' = r.context
              /\ out' = out \o r.out
    /\ pc' = "compare"
    /\ UNCHANGED << argv, query, search, chunks, rag_tokens, rag_context,
                    report, save_env, save_fault, tmp_files, exit_code >>

\* Lines 197-222: the comparison report.  A division by zero would end the
\* process with a traceback (exit status 1).
CompareStep ==
    /\ pc = "compare"
    /\ report' = CompareResults(rag_tokens, naive_tokens)
    /\ IF report'.kind = "crash"
       THEN pc' = "done" /\ exit_code' = 1 /\ UNCHANGED out
       ELSE /\ pc' = "save"
            /\ out' = Append(out, << "Comparison", report'.kind >>)
            /\ UNCHANGED exit_code
    /\ UNCHANGED << argv, query, search, chunks, rag_tokens, rag_context, fs,
                    relevant_files, file_contents, naive_tokens, naive_context,
                    save_env, save_fault, tmp_files >>

\* Lines 224-233: the optional saving of both contexts, then the end of main.
\* An exception raised by tempfile or by the write is not caught: the process
\* ends with a traceback (exit status 1).
SaveStep ==
    /\ pc = "save"
    /\ \E env \in EnvValues :
          /\ save_env' = env
          /\ IF ~SaveContextsEnabled(env)
             THEN /\ exit_code' = 0
                  /\ UNCHANGED << save_fault, tmp_files, out >>
             ELSE \E fault \in SaveFaults, n1 \in TmpNames, n2 \in TmpNames :
                    LET f1 == [ path |-> << n1, RagSuffix >>, content |-> rag_context ]
                        f2 == [ path |-> << n2, NaiveSuffix >>, content |-> naive_context ]
                    IN  /\ f1.path # f2.path
                        /\ save_fault' = fault
                        /\ CASE fault = "first" ->
                                   /\ UNCHANGED << tmp_files, out >>
                                   /\ exit_code' = 1
                             [] fault = "second" ->
                                   /\ tmp_files' = << f1 >>
                                   /\ out' = Append(out, << "RAG context saved to", f1.path >>)
                                   /\ exit_code' = 1
                             [] OTHER ->
                                   /\ tmp_files' = << f1, f2 >>
                                   /\ out' = out \o << << "RAG context saved to", f1.path >>,
                                                       << "Naive context saved to", f2.path >> >>
                                   /\ exit_code' = 0
    /\ pc' = "done"
    /\ UNCHANGED << argv, query, search, chunks, rag_tokens, rag_context, fs,
                    relevant_files, file_contents, naive_tokens, naive_context,
                    report >>

Next == CheckArguments \/ RagStep \/ NaiveStep \/ CompareStep \/ SaveStep

Spec == Init /\ [][Next]_vars

----------------------------------------------------------------------------
(* run_indexer_search on its own, over every search outcome                *)

InitSearch ==
    /\ pc = "call"
    /\ argv = << ScriptName >>
    /\ query = << >>
    /\ search \in SearchOutcomes
    /\ fs = << >>
    /\ relevant_files = << >>
    /\ Blank

\* chunks = run_indexer_search(query, top_k=5)
SearchCall ==
    /\ pc = "call"
    /\ chunks' = RunIndexerSearch(search).chunks
    /\ out' = out \o RunIndexerSearch(search).out
    /\ pc' = "returned"
    /\ UNCHANGED << argv, query, search, rag_tokens, rag_context, fs,
                    relevant_files, file_contents, naive_tokens, naive_context,
                    report, save_env, save_fault, tmp_files, exit_code >>

NextSearch == SearchCall

SpecSearch == InitSearch /\ [][NextSearch]_vars

----------------------------------------------------------------------------
(* benchmark_naive_approach on its own, over generated queries             *)

\* Every candidate file in the same state.
UniformFs(paths, st) == [ p \in PathSet(paths) |-> st ]

InitNaive ==
    /\ pc = "call"
    /\ argv = << ScriptName >>
    /\ query \in GeneratedQueries
    /\ search = NoOutcome
    /\ fs = << >>
    /\ relevant_files = << >>
    /\ Blank

\* naive_tokens, naive_context = benchmark_naive_approach(query)
NaiveCall ==
    /\ pc = "call"
    /\ \E st \in FileStates :
          LET fsys == UniformFs(RelevantFiles(query), st)
              r    == BenchmarkNaiveApproach(query, fsys)
          IN  /\ fs' = fsys
              /\ relevant_files' = r.relevant_files
              /\ file_contents' = r.file_contents
              /\ naive_tokens' = r.tokens
              /\ naive_context' = r.context
              /\ out' = out \o r.out
    /\ pc' = "returned"
    /\ UNCHANGED << argv, query, search, chunks, rag_tokens, rag_context,
                    report, save_env, save_fault, tmp_files, exit_code >>

NextNaive == NaiveCall

SpecNaive == InitNaive /\ [][NextNaive]_vars

----------------------------------------------------------------------------
(* get_file_contents on its own, over path lists and filesystem states     *)

InitFiles ==
    /\ pc = "call"
    /\ argv = << ScriptName >>
    /\ query = << >>
    /\ search = NoOutcome
    /\ fs \in [ PathUniverse -> FileStates ]
    /\ relevant_files \in PathLists
    /\ Blank

\* file_contents = get_file_contents(relevant_files)
ReadCall ==
    /\ pc = "call"
    /\ file_contents' = GetFileContents(relevant_files, fs).contents
    /\ out' = out \o GetFileContents(relevant_files, fs).out
    /\ pc' = "returned"
    /\ UNCHANGED << argv, query, search, chunks, rag_tokens, rag_context, fs,
                    relevant_files, naive_tokens, naive_context, report,
                    save_env, save_fault, tmp_files, exit_code >>

NextFiles == ReadCall

SpecFiles == InitFiles /\ [][NextFiles]_vars

----------------------------------------------------------------------------
(* Properties of whole runs (checked under Spec)                           *)

\* main took the query and went on past the argument check.
Running == Len(argv) = 2
AfterRag   == Running /\ pc \in { "naive", "compare", "save", "done" }
AfterNaive == Running /\ pc \in { "compare", "save", "done" }
Compared   == report.kind # "none"

SearchFailed == search.raised \/ search.returncode # 0

\* C1: whenever the search invocation fails (an exception while launching or
\* reading the process, or a non-zero exit status, whatever it had printed),
\* run_indexer_search returns the empty list and nothing propagates: main
\* goes on to the naive approach with rag_tokens = 0 and rag_context = "".
C1_SearchFailsSoft ==
    (AfterRag /\ SearchFailed) =>
        /\ chunks = << >>
        /\ rag_tokens = 0
        /\ rag_context = << >>
        /\ (pc = "naive" => exit_code = -1)

\* A search that exits with status 101 after printing a parsable entry.
C1_Witness ==
    /\ pc = "naive"
    /\ search.returncode = 101
    /\ Len(search.block.kinds) >= 1
    /\ ~search.raised
    /\ chunks = << >>
    /\ rag_tokens = 0

\* C2: when either cost is not positive the comparison is reported as
\* incomplete and no savings, percentage or efficiency ratio is computed;
\* savings and percentage are computed only from two positive costs, as
\* naive - rag and savings / naive * 100; no division by zero is reached.
C2_IncompleteWhenNotPositive ==
    Compared =>
        /\ report.kind # "crash"
        /\ (rag_tokens <= 0 \/ naive_tokens <= 0) =>
               /\ report.kind = "incomplete"
               /\ report.savings = << >>
               /\ report.percent = << >>
               /\ report.efficiency = << >>
        /\ (report.savings # << >> \/ report.percent # << >>
              \/ report.efficiency # << >>) =>
               /\ rag_tokens > 0 /\ naive_tokens > 0
               /\ report.savings = << naive_tokens - rag_tokens >>
               /\ report.percent = << [ num |-> (naive_tokens - rag_tokens) * 100,
                                        den |-> naive_tokens ] >>
               /\ report.percent[1].den # 0
               /\ \A i \in 1..Len(report.efficiency) :
                     report.efficiency[i].inf \/ report.efficiency[i].den # 0

\* A run whose retrieval cost is 0 and whose naive cost is positive.
C2_Witness ==
    /\ pc = "save"
    /\ rag_tokens = 0
    /\ naive_tokens > 0
    /\ report.kind = "incomplete"

\* C3 as stated: with a retrieval cost of exactly 0 the report carries an
\* unbounded (infinite) efficiency ratio.
C3_AsStated ==
    (Compared /\ rag_tokens = 0) =>
        /\ report.efficiency # << >>
        /\ report.efficiency[1].inf

\* C3 amended: with a retrieval cost of exactly 0 the comparison is reported
\* as incomplete, no efficiency ratio is reported at all and no division error
\* is raised; an efficiency ratio that is reported is never the infinite one.
C3_ZeroRagCostIsIncomplete ==
    /\ (Compared /\ rag_tokens = 0) =>
           /\ report.kind = "incomplete"
           /\ report.efficiency = << >>
           /\ (pc = "save" => exit_code = -1)
    /\ \A i \in 1..Len(report.efficiency) : ~report.efficiency[i].inf

\* A finished run whose retrieval cost was 0.
C3_Witness ==
    /\ pc = "done"
    /\ rag_tokens = 0
    /\ report.kind = "incomplete"
    /\ exit_code = 0

\* C8: the process exits with status 1, after the usage text and without
\* running either strategy, when the argument count is wrong; every run with
\* exactly one argument exits with status 0.
C8_ExitStatus ==
    pc = "done" =>
        IF Len(argv) # 2
        THEN /\ exit_code = 1
             /\ out = << << "Usage" >> >>
             /\ search = NoOutcome
             /\ fs = << >>
             /\ report = NotCompared
        ELSE exit_code = 0

\* The value is "true", "1" or "yes" up to the case of its letters.
SameLetter(a, b) ==
    \/ a = b
    \/ \E i \in 1..26 : \/ (a = LowerLetters[i] /\ b = UpperLetters[i])
                         \/ (a = UpperLetters[i] /\ b = LowerLetters[i])

IsTruthyForm(env) ==
    /\ env.set
    /\ \E t \in { TrueText, OneText, YesText } :
          /\ Len(env.value) = Len(t)
          /\ \A i \in 1..Len(t) : SameLetter(env.value[i], t[i])

Printed(line) == \E i \in 1..Len(out) : out[i] = line

C10_CostsAndCompleteness ==
    /\ AfterNaive => (naive_tokens >= 4 /\ naive_context # << >>)
    /\ AfterRag => /\ (rag_tokens = 0 <=> chunks = << >>)
                   /\ (chunks # << >> => rag_tokens > 0)
                   /\ (chunks = << >> => rag_context = << >>)
    /\ Compared => /\ (report.kind = "incomplete" <=> chunks = << >>)
                   /\ naive_tokens # 0

\* The empty query with every candidate file missing or unreadable, after a
\* search that found chunks.
C10_Witness ==
    /\ pc = "save"
    /\ query = << >>
    /\ \A p \in DOMAIN fs : fs[p].kind \in { "missing", "unreadable" }
    /\ file_contents = << >>
    /\ naive_tokens = 4
    /\ chunks # << >>
    /\ report.kind = "complete"

----------------------------------------------------------------------------
(* Properties of the candidate file list (checked under SpecNaive)         *)

\* A keyword occurs in q as a substring, up to the case of the letters.
OccursIgnoringCase(word, q) ==
    \E off \in 0..(Len(q) - Len(word)) :
        \A j \in 1..Len(word) : SameLetter(q[off + j], word[j])

\* The keyword groups with at least one keyword occurring in q.
MatchedGroups(q) ==
    { g \in 1..Len(KeywordGroups) :
        \E k \in 1..Len(KeywordGroups[g].keywords) :
            OccursIgnoringCase(KeywordGroups[g].keywords[k], q) }

\* Where a file first occurs when the lists of the groups G are laid end to
\* end in the order of the table: (group, place in the group's list).
FirstPlace(f, G) ==
    LET places == UNION { { << g, k >> : k \in { n \in 1..Len(KeywordGroups[g].files) :
                                                   KeywordGroups[g].files[n] = f } } :
                          g \in G }
    IN  CHOOSE pl \in places :
            \A other \in places :
                pl[1] < other[1] \/ (pl[1] = other[1] /\ pl[2] <= other[2])

Before(a, b) == a[1] < b[1] \/ (a[1] = b[1] /\ a[2] < b[2])

\* files is the union of the lists of the groups G, in first-occurrence
\* order and without duplicates; the default list when G is empty.
IsFirstOccurrenceUnion(files, G) ==
    IF G = {} THEN files = << src_main_rs, Cargo_toml, README_md >>
    ELSE /\ PathSet(files) = UNION { PathSet(KeywordGroups[g].files) : g \in G }
         /\ \A i, j \in 1..Len(files) :
               i < j => /\ files[i] # files[j]
                        /\ Before(FirstPlace(files[i], G), FirstPlace(files[j], G))

\* A query naming the first keyword of each group of G, the groups taken in
\* the order of the table or in the opposite order.
RECURSIVE KeywordsQuery(_, _)
KeywordsQuery(G, descending) ==
    IF G = {} THEN << >>
    ELSE LET g == IF descending
                  THEN CHOOSE x \in G : \A y \in G : y <= x
                  ELSE CHOOSE x \in G : \A y \in G : x <= y
         IN  KeywordGroups[g].keywords[1] \o << " " >>
             \o KeywordsQuery(G \ { g }, descending)

\* C4: the candidate list is the union of the file lists of the keyword
\* groups with a keyword occurring, case-insensitively, in the query, in
\* first-occurrence order and without duplicates; it is the default list when
\* no group matches; and a query with the same keywords in another order
\* gives the same list.
C4_CandidateFiles ==
    pc = "returned" =>
        /\ IsFirstOccurrenceUnion(relevant_files, MatchedGroups(query))
        /\ \A descending \in BOOLEAN :
              LET other == KeywordsQuery(MatchedGroups(query), descending)
              IN  /\ MatchedGroups(other) = MatchedGroups(query)
                  /\ RelevantFiles(other) = relevant_files

\* "IndexCLI": the index keyword before the cli keyword, both in capitals.
C4_Witness ==
    /\ pc = "returned"
    /\ query = <<"I", "n", "d", "e", "x", "C", "L", "I">>
    /\ MatchedGroups(query) = { 1, 4 }
    /\ relevant_files = << src_main_rs, src_bin_indexer_rs, src_index_chunker_rs,
                           src_index_embedder_rs, src_index_vector_store_rs >>

\* No keyword at all: the default list.
C4_WitnessDefault ==
    /\ pc = "returned"
    /\ MatchedGroups(query) = {}
    /\ query # << >>
    /\ relevant_files = DefaultFiles

----------------------------------------------------------------------------
(* Properties of get_file_contents (checked under SpecFiles)               *)

\* The places of file_paths whose path is in the given state.
PlacesOf(kind) ==
    { i \in 1..Len(relevant_files) : fs[relevant_files[i]].kind = kind }

\* The k-th smallest element of a set of numbers.
Nth(S, k) == CHOOSE i \in S : Cardinality({ j \in S : j <= i }) = k

\* The lines of out that are equal to line.
Occurrences(line) == Cardinality({ i \in 1..Len(out) : out[i] = line })

\* C5: get_file_contents returns one entry for each place of the candidate
\* list whose path exists and is readable, in the order of the list, each with
\* the path, the text and its length; it prints one warning for each place
\* with a missing path and one error for each place with an unreadable path,
\* and nothing else; a failure on one path does not stop the later ones.
C5_FileContents ==
    pc = "returned" =>
        /\ Len(file_contents) = Cardinality(PlacesOf("readable"))
        /\ \A k \in 1..Len(file_contents) :
              LET p == relevant_files[Nth(PlacesOf("readable"), k)]
              IN  file_contents[k] = [ file |-> p, content |-> fs[p].content,
                                       size |-> Len(fs[p].content) ]
        /\ Len(out) = Cardinality(PlacesOf("missing"))
                      + Cardinality(PlacesOf("unreadable"))
        /\ \A p \in PathSet(relevant_files) :
              /\ Occurrences(<< "Warning: File not found", p >>)
                   = Cardinality({ i \in PlacesOf("missing") : relevant_files[i] = p })
              /\ Occurrences(<< "Error reading", p >>)
                   = Cardinality({ i \in PlacesOf("unreadable") : relevant_files[i] = p })

\* An unreadable path, then a missing one, then a readable one.
C5_Witness ==
    /\ pc = "returned"
    /\ Len(relevant_files) = 3
    /\ fs[relevant_files[1]].kind = "unreadable"
    /\ fs[relevant_files[2]].kind = "missing"
    /\ fs[relevant_files[3]].kind = "readable"
    /\ Len(file_contents) = 1
    /\ file_contents[1].file = relevant_files[3]
    /\ Len(out) = 2

----------------------------------------------------------------------------
(* Properties of the parser (checked under SpecSearch)                     *)

Parsed == pc = "returned" /\ ~search.raised /\ search.returncode = 0

\* Every entry of the block is well formed and the entries are in rank order.
WellFormedBlock(block) ==
    /\ ~block.reversed
    /\ \A i \in 1..Len(block.kinds) : block.kinds[i] \in WellFormedKinds

\* C6: from a well-formed block of N entries the parser yields exactly N
\* chunks, in the order of the entries, each with the name, the source file
\* and the code of its own entry.
C6_WellFormedBlockParsed ==
    (Parsed /\ WellFormedBlock(search.block)) =>
        /\ Len(chunks) = Len(search.block.kinds)
        /\ \A i \in 1..Len(chunks) :
              /\ chunks[i].name = EntryName(RankAt(search.block, i))
              /\ chunks[i].file = EntryFile(RankAt(search.block, i))
              /\ chunks[i].code = EntryCode(RankAt(search.block, i))

\* What does hold of a well-formed block: count, order, name and code are
\* those of the entries, and the file field is the whole rest of the header
\* line after the closing quote of the name.
WellFormedBlockParsedButFile ==
    (Parsed /\ WellFormedBlock(search.block)) =>
        /\ Len(chunks) = Len(search.block.kinds)
        /\ \A i \in 1..Len(chunks) :
              LET r == RankAt(search.block, i)
              IN  /\ chunks[i].name = EntryName(r)
                  /\ chunks[i].code = EntryCode(r)
                  /\ chunks[i].file # EntryFile(r)
                  /\ Contains(chunks[i].file, EntryFile(r))
                  /\ chunks[i].file
                       = (IF search.block.kinds[i] = "okA" THEN ScoreText ELSE << >>)
                         \o InText \o EntryFile(r)
                         \o (IF search.block.kinds[i] = "okB" THEN ScoreText ELSE << >>)

\* The chunk takes its name, its file and its code from the i-th entry.
FromEntry(chunk, block, i) ==
    LET r == RankAt(block, i)
    IN  /\ chunk.name = EntryName(r)
        /\ chunk.code = EntryCode(r)
        /\ \/ chunk.file = Unknown
           \/ \E h \in 1..Len(HeaderLine(block.kinds[i], r)) :
                 Contains(HeaderLine(block.kinds[i], r)[h], chunk.file)

\* C7: from a truncated, reordered or partly malformed block the chunks
\* returned are a subset of the block's entries: each chunk takes its name,
\* file and code from one and the same entry, and the chunks keep the order
\* of their entries.
C7_ChunksAreEntries ==
    Parsed =>
        /\ \A k \in 1..Len(chunks) :
              \E i \in 1..Len(search.block.kinds) :
                  FromEntry(chunks[k], search.block, i)
        /\ \A k1, k2 \in 1..Len(chunks) :
              \A i1, i2 \in 1..Len(search.block.kinds) :
                  ( /\ k1 < k2
                    /\ FromEntry(chunks[k1], search.block, i1)
                    /\ FromEntry(chunks[k2], search.block, i2) ) => i1 < i2

=============================================================================
